---- MODULE Spec2Model ----
(***************************************************************************)
(* The SPA development server of src/server.py: SPAHTTPHandler.do_GET and  *)
(* the static-file mechanism (http.server.SimpleHTTPRequestHandler) that   *)
(* it delegates to.  Strings are sequences of one-character strings, so    *)
(* that parsing, slicing, percent-decoding and path normalisation are      *)
(* computed character by character, as the code computes them.             *)
(***************************************************************************)
EXTENDS Integers, Sequences, FiniteSets, TLC

(* ------------------------------ bounds -------------------------------- *)

\* Enumerated request targets are "/" followed by at most MaxLen characters.
MaxLen == 3

\* The characters the enumerated request targets are built from.
Alphabet == {"/", ".", ";", "?", "#", "%", "3"}

(* --------------------------- string helpers --------------------------- *)

Slice(s, from, to) == IF from > to THEN << >> ELSE SubSeq(s, from, to)

\* s[1:]
DropFirst(s) == Slice(s, 2, Len(s))

\* s.endswith(c), s.startswith(c) for a character c
EndsWith(s, c) == Len(s) > 0 /\ s[Len(s)] = c
StartsWith(s, c) == Len(s) > 0 /\ s[1] = c

\* s.find(c, start), positions counted from 1; 0 when c does not occur
Find(s, c, start) ==
    LET hits == {i \in start..Len(s) : s[i] = c}
    IN  IF hits = {} THEN 0 ELSE CHOOSE i \in hits : \A j \in hits : i <= j

\* s.rfind(c); 0 when c does not occur
RFind(s, c) ==
    LET hits == {i \in 1..Len(s) : s[i] = c}
    IN  IF hits = {} THEN 0 ELSE CHOOSE i \in hits : \A j \in hits : i >= j

\* s.split(c, 1)[0]
Before(s, c) ==
    LET i == Find(s, c, 1) IN IF i = 0 THEN s ELSE Slice(s, 1, i - 1)

\* s.split(c, 1)[1], or the empty string when c does not occur
After(s, c) ==
    LET i == Find(s, c, 1) IN IF i = 0 THEN << >> ELSE Slice(s, i + 1, Len(s))

\* s.split(c): the list of the pieces between the occurrences of c
RECURSIVE Split(_, _)
Split(s, c) ==
    LET i == Find(s, c, 1)
    IN  IF i = 0 THEN << s >>
        ELSE << Slice(s, 1, i - 1) >> \o Split(Slice(s, i + 1, Len(s)), c)

\* c.join(words)
RECURSIVE Join(_, _)
Join(words, c) ==
    IF words = << >> THEN << >>
    ELSE IF Len(words) = 1 THEN words[1]
    ELSE words[1] \o << c >> \o Join(Tail(words), c)

\* s.lstrip(c)
RECURSIVE LStrip(_, _)
LStrip(s, c) == IF StartsWith(s, c) THEN LStrip(Tail(s), c) ELSE s

(* --------------------------- urllib.parse ----------------------------- *)

\* _splitnetloc(url, 2): the network location after a leading "//" runs to
\* the first of "/", "?", "#".
SplitNetloc(url) ==
    LET ds    == {Find(url, c, 3) : c \in {"/", "?", "#"}} \ {0}
        delim == IF ds = {} THEN Len(url) + 1
                 ELSE CHOOSE i \in ds : \A j \in ds : i <= j
    IN  [netloc |-> Slice(url, 3, delim - 1), rest |-> Slice(url, delim, Len(url))]

\* urllib.parse.urlsplit for a target without a scheme: the network
\* location, then the fragment, then the query are cut off the path.
Urlsplit(url) ==
    LET hasNet == Len(url) >= 2 /\ url[1] = "/" /\ url[2] = "/"
        nl     == IF hasNet THEN SplitNetloc(url) ELSE [netloc |-> << >>, rest |-> url]
        u1     == nl.rest
        u2     == Before(u1, "#")
    IN  [netloc   |-> nl.netloc,
         path     |-> Before(u2, "?"),
         query    |-> After(u2, "?"),
         fragment |-> After(u1, "#")]

\* _splitparams: the parameters are what follows the first ";" of the last
\* path segment.
SplitParams(url) ==
    LET i == IF Find(url, "/", 1) > 0 THEN Find(url, ";", RFind(url, "/"))
             ELSE Find(url, ";", 1)
    IN  IF i = 0 THEN url ELSE Slice(url, 1, i - 1)

\* urllib.parse.urlparse(url).path: urlsplit's path with the parameters of
\* its last segment removed.
UrlparsePath(url) ==
    LET p == Urlsplit(url).path
    IN  IF Find(p, ";", 1) > 0 THEN SplitParams(p) ELSE p

\* urllib.parse.urlunsplit of urlsplit's parts with "/" appended to the path
\* (the Location of send_head's redirect).
UrlunsplitSlash(parts) ==
    LET url0 == parts.path \o << "/" >>
        url1 == IF parts.netloc # << >> THEN << "/", "/" >> \o parts.netloc \o url0
                ELSE url0
        url2 == IF parts.query # << >> THEN url1 \o << "?" >> \o parts.query ELSE url1
    IN  IF parts.fragment # << >> THEN url2 \o << "#" >> \o parts.fragment ELSE url2

HexDigits == << "0", "1", "2", "3", "4", "5", "6", "7", "8", "9",
                "a", "b", "c", "d", "e", "f", "A", "B", "C", "D", "E", "F" >>

IsHex(c) == \E i \in 1..Len(HexDigits) : HexDigits[i] = c

HexVal(c) ==
    LET i == CHOOSE k \in 1..Len(HexDigits) : HexDigits[k] = c
    IN  IF i <= 16 THEN i - 1 ELSE i - 7

\* The printable ASCII characters, from code 32 (space) to code 126 (the
\* grave accent, code 96, is written out).
Ascii == << " ", "!", "\"", "#", "$", "%", "&", "'", "(", ")", "*", "+", ",", "-",
            ".", "/", "0", "1", "2", "3", "4", "5", "6", "7", "8", "9", ":", ";",
            "<", "=", ">", "?", "@", "A", "B", "C", "D", "E", "F", "G", "H", "I",
            "J", "K", "L", "M", "N", "O", "P", "Q", "R", "S", "T", "U", "V", "W",
            "X", "Y", "Z", "[", "\\", "]", "^", "_", "grave", "a", "b", "c", "d", "e",
            "f", "g", "h", "i", "j", "k", "l", "m", "n", "o", "p", "q", "r", "s",
            "t", "u", "v", "w", "x", "y", "z", "{", "|", "}", "~" >>

\* chr(code); every other code stands for one character outside Ascii.
Chr(code) == IF code >= 32 /\ code - 31 <= Len(Ascii) THEN Ascii[code - 31] ELSE "\\x"

\* urllib.parse.unquote: "%" followed by two hex digits is the character of
\* that code; any other "%" stays.
RECURSIVE Unquote(_)
Unquote(s) ==
    IF s = << >> THEN << >>
    ELSE IF s[1] = "%" /\ Len(s) >= 3 /\ IsHex(s[2]) /\ IsHex(s[3])
         THEN << Chr(16 * HexVal(s[2]) + HexVal(s[3])) >> \o Unquote(Slice(s, 4, Len(s)))
    ELSE << s[1] >> \o Unquote(Tail(s))

(* ----------------------------- posixpath ------------------------------ *)

Dot == << "." >>
DotDot == << ".", "." >>

\* The loop of posixpath.normpath over the components of the path.
RECURSIVE NormComps(_, _, _)
NormComps(comps, new, initial) ==
    IF comps = << >> THEN new
    ELSE LET comp == Head(comps)
             rest == Tail(comps)
         IN  IF comp = << >> \/ comp = Dot THEN NormComps(rest, new, initial)
             ELSE IF comp # DotDot
                     \/ (initial = 0 /\ new = << >>)
                     \/ (new # << >> /\ new[Len(new)] = DotDot)
                  THEN NormComps(rest, Append(new, comp), initial)
             ELSE IF new # << >>
                  THEN NormComps(rest, Slice(new, 1, Len(new) - 1), initial)
             ELSE NormComps(rest, new, initial)

\* posixpath.normpath
Normpath(p) ==
    IF p = << >> THEN Dot
    ELSE LET initial == IF ~StartsWith(p, "/") THEN 0
                        ELSE IF Len(p) >= 2 /\ p[2] = "/" /\ ~(Len(p) >= 3 /\ p[3] = "/")
                             THEN 2
                        ELSE 1
             joined  == Join(NormComps(Split(p, "/"), << >>, initial), "/")
             out     == [i \in 1..initial |-> "/"] \o joined
         IN  IF out = << >> THEN Dot ELSE out

(* --------------------------- the filesystem --------------------------- *)

\* The names used on disk.
Srv == << "s", "r", "v" >>
IndexHtml == << "i", "n", "d", "e", "x", ".", "h", "t", "m", "l" >>
IndexHtm == << "i", "n", "d", "e", "x", ".", "h", "t", "m" >>
Name3 == << "3" >>
NamePct == << "%", "3", "3" >>
NameSemi == << "3", ";", "3" >>

\* A filesystem maps the absolute path of each entry (the sequence of its
\* names, << >> for the root directory) to its kind and, for a regular
\* file, its bytes.  The server's working directory is /srv.
Cwd == << Srv >>
CwdString == << "/" >> \o Srv

Dir == [kind |-> "dir", content |-> ""]
File(bytes) == [kind |-> "file", content |-> bytes]

\* The entries of one filesystem: index is the kind of /srv/index.html, r the
\* kind of /srv/3 and semi the kind of /srv/3;3 ("none" for none); sub, pct
\* and out say whether /srv/3/index.html, /srv/%33 and /3 (outside the
\* document root) exist as regular files.  "%33" is the percent-encoding
\* of "3".
Entries(c) ==
    {[path |-> << >>, meta |-> Dir], [path |-> Cwd, meta |-> Dir]}
    \cup (IF c.index = "file" THEN {[path |-> << Srv, IndexHtml >>, meta |-> File("<app/>")]}
          ELSE IF c.index = "dir" THEN {[path |-> << Srv, IndexHtml >>, meta |-> Dir]}
          ELSE {})
    \cup (IF c.r = "file" THEN {[path |-> << Srv, Name3 >>, meta |-> File("3-bytes")]}
          ELSE IF c.r = "dir" THEN {[path |-> << Srv, Name3 >>, meta |-> Dir]}
          ELSE {})
    \cup (IF c.r = "dir" /\ c.sub
          THEN {[path |-> << Srv, Name3, IndexHtml >>, meta |-> File("sub-index")]}
          ELSE {})
    \cup (IF c.pct THEN {[path |-> << Srv, NamePct >>, meta |-> File("pct-bytes")]} ELSE {})
    \cup (IF c.semi = "file" THEN {[path |-> << Srv, NameSemi >>, meta |-> File("semi-bytes")]}
          ELSE IF c.semi = "dir" THEN {[path |-> << Srv, NameSemi >>, meta |-> Dir]}
          ELSE {})
    \cup (IF c.out THEN {[path |-> << Name3 >>, meta |-> File("outside")]} ELSE {})

MkFS(c) ==
    LET es == Entries(c)
    IN  [p \in {e.path : e \in es} |-> (CHOOSE e \in es : e.path = p).meta]

Configs ==
    {c \in [index : {"none", "file", "dir"}, r : {"none", "file", "dir"},
            sub : BOOLEAN, pct : BOOLEAN, semi : {"none", "file", "dir"},
            out : BOOLEAN] :
        /\ c.sub => c.r = "dir"
        /\ c.index = "dir" => (c.r = "file" /\ ~c.pct /\ c.semi = "none" /\ ~c.out)
        /\ c.out => (~c.pct /\ c.semi = "none")}

FileSystems == {MkFS(c) : c \in Configs}

(* ------------------------------ os.path ------------------------------- *)

NotFound == [found |-> FALSE, at |-> << >>]

\* One step of the kernel's path walk: the entry reached so far must be a
\* directory; "" and "." stay, ".." goes up, a name goes down.
RECURSIVE Walk(_, _, _)
Walk(f, cur, comps) ==
    IF comps = << >> THEN [found |-> TRUE, at |-> cur]
    ELSE IF f[cur].kind # "dir" THEN NotFound
    ELSE LET comp == Head(comps)
         IN  IF comp = << >> \/ comp = Dot THEN Walk(f, cur, Tail(comps))
             ELSE IF comp = DotDot
                  THEN Walk(f, Slice(cur, 1, Len(cur) - 1), Tail(comps))
             ELSE IF Append(cur, comp) \in DOMAIN f
                  THEN Walk(f, Append(cur, comp), Tail(comps))
             ELSE NotFound

\* os.stat(p): the entry that p names, from the root for an absolute p and
\* from the working directory otherwise; the empty path names nothing.
Stat(f, p) ==
    IF p = << >> THEN NotFound
    ELSE Walk(f, IF StartsWith(p, "/") THEN << >> ELSE Cwd, Split(p, "/"))

\* os.path.exists, os.path.isdir, os.path.isfile
Exists(f, p) == Stat(f, p).found
IsDir(f, p) == LET st == Stat(f, p) IN st.found /\ f[st.at].kind = "dir"
IsFile(f, p) == LET st == Stat(f, p) IN st.found /\ f[st.at].kind = "file"

\* os.path.join(a, b) for a relative b
PathJoin(a, b) == IF a = << >> \/ EndsWith(a, "/") THEN a \o b ELSE a \o << "/" >> \o b

(* ---------------- http.server.SimpleHTTPRequestHandler ---------------- *)

HasSuffix(s, suf) ==
    Len(s) >= Len(suf) /\ Slice(s, Len(s) - Len(suf) + 1, Len(s)) = suf

\* guess_type: the content type that goes with the extension of the path.
GuessType(p) ==
    IF HasSuffix(p, << ".", "h", "t", "m", "l" >>) \/ HasSuffix(p, << ".", "h", "t", "m" >>)
    THEN "text/html"
    ELSE "application/octet-stream"

\* The loop of translate_path over the words of the normalised path: "." and
\* ".." are skipped, every other word is joined to the directory.
RECURSIVE JoinWords(_, _)
JoinWords(p, words) ==
    IF words = << >> THEN p
    ELSE IF Head(words) = Dot \/ Head(words) = DotDot THEN JoinWords(p, Tail(words))
    ELSE JoinWords(PathJoin(p, Head(words)), Tail(words))

\* translate_path: the local filename of a request path.  Query and fragment
\* are abandoned, the rest is percent-decoded and normalised, and an
\* explicit trailing slash is kept.
TranslatePath(selfPath) ==
    LET p1    == Before(Before(selfPath, "?"), "#")
        slash == EndsWith(p1, "/")
        p2    == Normpath(Unquote(p1))
        words == SelectSeq(Split(p2, "/"), LAMBDA w : w # << >>)
        local == JoinWords(CwdString, words)
    IN  IF slash THEN local \o << "/" >> ELSE local

NoFile == [status |-> 404, location |-> << >>, ctype |-> "text/html",
           body |-> "File not found", source |-> "error", served |-> NotFound]

\* The tail of send_head: a local path with a trailing slash is not found,
\* nor is one that cannot be opened; a regular file is sent with its bytes.
OpenAndSend(f, local, source) ==
    IF EndsWith(local, "/") \/ ~IsFile(f, local) THEN NoFile
    ELSE [status |-> 200, location |-> << >>, ctype |-> GuessType(local),
          body |-> f[Stat(f, local).at].content, source |-> source,
          served |-> Stat(f, local)]

\* send_head followed by the copy of do_GET: the response of the static-file
\* mechanism to a GET of selfPath.  A directory asked for without a trailing
\* slash redirects to the path with one; with one, its index.html or
\* index.htm is sent, or else its listing.
SendHead(f, selfPath) ==
    LET local == TranslatePath(selfPath)
        parts == Urlsplit(selfPath)
    IN  IF IsDir(f, local)
        THEN IF ~EndsWith(parts.path, "/")
             THEN [status |-> 301, location |-> UrlunsplitSlash(parts),
                   ctype |-> "", body |-> "", source |-> "redirect",
                   served |-> Stat(f, local)]
             ELSE IF IsFile(f, PathJoin(local, IndexHtml))
                  THEN OpenAndSend(f, PathJoin(local, IndexHtml), "dirindex")
             ELSE IF IsFile(f, PathJoin(local, IndexHtm))
                  THEN OpenAndSend(f, PathJoin(local, IndexHtm), "dirindex")
             ELSE [status |-> 200, location |-> << >>, ctype |-> "text/html",
                   body |-> "<listing>", source |-> "listing",
                   served |-> Stat(f, local)]
        ELSE OpenAndSend(f, local, "file")

\* SimpleHTTPRequestHandler.do_HEAD: the headers of send_head without a body.
HeadOnly(f, selfPath) == [SendHead(f, selfPath) EXCEPT !.body = ""]

\* handle_one_request for a command without a do_ method.
Unsupported == [status |-> 501, location |-> << >>, ctype |-> "text/html",
                body |-> "Unsupported method", source |-> "error", served |-> NotFound]

\* parse_request: a path that starts with "//" is reduced to a single "/".
ParsedPath(target) ==
    IF Len(target) >= 2 /\ target[1] = "/" /\ target[2] = "/"
    THEN << "/" >> \o LStrip(target, "/")
    ELSE target

(* ------------------------- SPAHTTPHandler.do_GET ---------------------- *)

\* A variant that routes on the whole of self.path, query included.
RoutedPathRaw(selfPath) == selfPath

\* url = urlparse(self.path); the routing decision reads url.path.
RoutedPath(selfPath) == UrlparsePath(selfPath)

\* A variant without the test of the trailing separator.
ServeAsIsNoSlashTest(f, urlPath) == Exists(f, DropFirst(urlPath))

\* A variant that checks for existence at "." + url.path and nothing else.
ServeAsIsDot(f, urlPath) == Exists(f, << "." >> \o urlPath)

\* os.path.exists(url.path[1:]) and not url.path.endswith("/")
ServeAsIs(f, urlPath) == Exists(f, DropFirst(urlPath)) /\ ~EndsWith(urlPath, "/")

\* A variant that falls back to the document root and leaves the choice of
\* the index document to the static-file mechanism.
FallbackRoot == << "/" >>

\* The fallback document: self.path = '/index.html'
FallbackPath == << "/" >> \o IndexHtml

\* The path the handler hands to the static-file mechanism: self.path as it
\* is when the existing entry is served, '/index.html' otherwise.
EffectivePath(f, selfPath) ==
    IF ServeAsIs(f, RoutedPath(selfPath)) THEN selfPath ELSE FallbackPath

(* --------------------------- the state machine ------------------------ *)

Threads == {1, 2}
Methods == {"GET", "HEAD", "POST"}

RECURSIVE Strings(_)
Strings(n) ==
    IF n = 0 THEN {<< >>}
    ELSE LET shorter == Strings(n - 1)
         IN  shorter \cup {Append(s, c) : s \in {x \in shorter : Len(x) = n - 1}, c \in Alphabet}

\* Request targets in origin form: every "/" + s with s of at most MaxLen
\* characters, and the targets that name index.html.
IndexTarget == << "/" >> \o IndexHtml
LongTargets ==
    {IndexTarget, IndexTarget \o << "/" >>, IndexTarget \o << "?", "3" >>,
     << "/" >> \o Name3 \o << "/" >> \o IndexHtml}
Targets == {<< "/" >> \o s : s \in Strings(MaxLen)} \cup LongTargets

\* The targets of the requests that run concurrently.
ConcTargets ==
    {<< "/" >>, << "/", "3" >>, << "/", "3", "/" >>, << "/", "." >>,
     << "/", "3", ";", "3" >>, << "/", "%", "3", "3" >>, IndexTarget}

NoResponse == [status |-> 0, location |-> << >>, ctype |-> "", body |-> "",
               source |-> "none", served |-> NotFound]

VARIABLES
    fs,           \* the filesystem; no request changes it
    pc,           \* per handler thread: "idle", "parsed" or "done"
    command,      \* self.command
    requestline,  \* the request target as received
    path,         \* self.path
    branch,       \* which branch do_GET took: "none", "as_is" or "fallback"
    checked,      \* the entry that os.path.exists looked up in do_GET
    response      \* the response written to the client

vars == << fs, pc, command, requestline, path, branch, checked, response >>

Init ==
    /\ fs \in FileSystems
    /\ pc = [t \in Threads |-> "idle"]
    /\ command = [t \in Threads |-> ""]
    /\ requestline = [t \in Threads |-> << >>]
    /\ path = [t \in Threads |-> << >>]
    /\ branch = [t \in Threads |-> "none"]
    /\ checked = [t \in Threads |-> NotFound]
    /\ response = [t \in Threads |-> NoResponse]

\* A connection is accepted and a handler is made for it; parse_request
\* sets self.command and self.path from the request line, whose target is
\* one of targets.
ParseRequest(t, targets) ==
    /\ pc[t] = "idle"
    /\ \E cmd \in Methods, target \in targets :
        /\ command' = [command EXCEPT ![t] = cmd]
        /\ requestline' = [requestline EXCEPT ![t] = target]
        /\ path' = [path EXCEPT ![t] = ParsedPath(target)]
    /\ pc' = [pc EXCEPT ![t] = "parsed"]
    /\ UNCHANGED << fs, branch, checked, response >>

\* A variant in which the path is shared by all handlers, as a class
\* attribute would be.
RewriteAllPaths(paths, t) == [u \in Threads |-> FallbackPath]

\* self.path = '/index.html' in the handler of thread t
RewritePath(paths, t) == [paths EXCEPT ![t] = FallbackPath]

\* SPAHTTPHandler.do_GET
DoGET(t) ==
    /\ pc[t] = "parsed"
    /\ command[t] = "GET"
    /\ LET urlPath == RoutedPath(path[t])
       IN  /\ checked' = [checked EXCEPT ![t] = Stat(fs, DropFirst(urlPath))]
           /\ IF ServeAsIs(fs, urlPath)
              THEN /\ branch' = [branch EXCEPT ![t] = "as_is"]
                   /\ path' = path
                   /\ response' = [response EXCEPT ![t] = SendHead(fs, path[t])]
              ELSE /\ branch' = [branch EXCEPT ![t] = "fallback"]
                   /\ path' = RewritePath(path, t)
                   /\ response' = [response EXCEPT ![t] = SendHead(fs, path'[t])]
    /\ pc' = [pc EXCEPT ![t] = "done"]
    /\ UNCHANGED << fs, command, requestline >>

\* A variant in which HEAD goes through the routing decision of do_GET.
DoHEADRouted(t) ==
    /\ pc[t] = "parsed"
    /\ command[t] = "HEAD"
    /\ response' = [response EXCEPT ![t] = HeadOnly(fs, EffectivePath(fs, path[t]))]
    /\ path' = [path EXCEPT ![t] = EffectivePath(fs, path[t])]
    /\ pc' = [pc EXCEPT ![t] = "done"]
    /\ UNCHANGED << fs, command, requestline, branch, checked >>

\* The do_HEAD that SPAHTTPHandler inherits.
DoHEAD(t) ==
    /\ pc[t] = "parsed"
    /\ command[t] = "HEAD"
    /\ response' = [response EXCEPT ![t] = HeadOnly(fs, path[t])]
    /\ pc' = [pc EXCEPT ![t] = "done"]
    /\ UNCHANGED << fs, command, requestline, path, branch, checked >>

\* Any other command: the handler has no do_ method for it.
DoOther(t) ==
    /\ pc[t] = "parsed"
    /\ command[t] \notin {"GET", "HEAD"}
    /\ response' = [response EXCEPT ![t] = Unsupported]
    /\ pc' = [pc EXCEPT ![t] = "done"]
    /\ UNCHANGED << fs, command, requestline, path, branch, checked >>

\* The connection is closed and the handler discarded.
Finish(t) ==
    /\ pc[t] = "done"
    /\ pc' = [pc EXCEPT ![t] = "idle"]
    /\ command' = [command EXCEPT ![t] = ""]
    /\ requestline' = [requestline EXCEPT ![t] = << >>]
    /\ path' = [path EXCEPT ![t] = << >>]
    /\ branch' = [branch EXCEPT ![t] = "none"]
    /\ checked' = [checked EXCEPT ![t] = NotFound]
    /\ response' = [response EXCEPT ![t] = NoResponse]
    /\ UNCHANGED fs

\* One connection at a time, any request target.
Next ==
    \/ ParseRequest(1, Targets)
    \/ DoGET(1)
    \/ DoHEAD(1)
    \/ DoOther(1)
    \/ Finish(1)

Spec == Init /\ [][Next]_vars

\* ThreadingHTTPServer: one thread per connection, interleaved.
NextConc ==
    \E t \in Threads :
        \/ ParseRequest(t, ConcTargets)
        \/ DoGET(t)
        \/ DoHEAD(t)
        \/ DoOther(t)
        \/ Finish(t)

SpecConc == Init /\ [][NextConc]_vars

(* ------------------------ what the claims speak of -------------------- *)

\* The path component of a request target: what precedes the first "?" or
\* "#" (RFC 3986).
ReqPath(target) == Before(Before(target, "#"), "?")

\* The response to a GET of target when it is the only request: parse, route,
\* delegate.
Route(f, target) ==
    LET sp == ParsedPath(target)
    IN  [branch   |-> IF ServeAsIs(f, RoutedPath(sp)) THEN "as_is" ELSE "fallback",
         response |-> SendHead(f, EffectivePath(f, sp))]

\* The response to a request when it is the only request.
Respond(f, cmd, target) ==
    IF cmd = "GET" THEN Route(f, target).response
    ELSE IF cmd = "HEAD" THEN HeadOnly(f, ParsedPath(target))
    ELSE Unsupported

\* The response to a direct GET of /index.html.
DirectIndex(f) == Route(f, IndexTarget).response

\* Thread t has answered a GET.
GotGET(t) == pc[t] = "done" /\ command[t] = "GET"

RootIndex == << Srv, IndexHtml >>
HasIndexFile == RootIndex \in DOMAIN fs /\ fs[RootIndex].kind = "file"

(* ------------------------------- claims ------------------------------- *)

\* C1: for every GET request path p such that a regular file exists at
\* "." + p and p does not end with "/", do_GET delegates without rewriting
\* the path and the response body is the bytes of that file.
C1_ExistingFileServed ==
    \A t \in Threads :
        LET p == ReqPath(requestline[t])
        IN  (GotGET(t) /\ ~EndsWith(p, "/") /\ IsFile(fs, << "." >> \o p))
            => /\ branch[t] = "as_is"
               /\ path[t] = ParsedPath(requestline[t])
               /\ response[t].status = 200
               /\ response[t].body = fs[Stat(fs, << "." >> \o p).at].content

\* C2: for every GET request path p such that no filesystem entry exists at
\* "." + p, the response is the response to a direct GET of /index.html,
\* status, headers and body (as it is when do_GET rewrites the path to
\* exactly /index.html before it delegates).
C2_MissingPathFallsBack ==
    \A t \in Threads :
        (GotGET(t) /\ ~Exists(fs, << "." >> \o ReqPath(requestline[t])))
        => response[t] = DirectIndex(fs)

\* C3: every GET of a path that ends with "/" is routed to the fallback
\* document, whether or not an entry exists at the path with or without the
\* separator: the response is that of a direct GET of /index.html.
C3_TrailingSlashFallsBack ==
    \A t \in Threads :
        (GotGET(t) /\ EndsWith(ReqPath(requestline[t]), "/"))
        => /\ branch[t] = "fallback"
           /\ path[t] = IndexTarget
           /\ response[t] = DirectIndex(fs)

\* C3, its case: a GET of /3/ where 3 is a directory with an index.html of
\* its own was answered with the root index.html.
C3_Witness ==
    /\ GotGET(1)
    /\ requestline[1] = << "/", "3", "/" >>
    /\ << Srv, Name3, IndexHtml >> \in DOMAIN fs
    /\ response[1].status = 200
    /\ response[1].body = "<app/>"

\* C4: query string and fragment play no part in the routing decision: a GET
\* of a target takes the branch, and is served the entry, of a GET of its
\* path component alone.
C4_QueryIgnored ==
    \A t \in Threads :
        GotGET(t) =>
            LET alone == Route(fs, ReqPath(requestline[t]))
            IN  /\ branch[t] = alone.branch
                /\ response[t].status = alone.response.status
                /\ response[t].served = alone.response.served
                /\ response[t].body = alone.response.body

\* C4, its case: a GET of /3?/, whose query ends with the separator, was
\* served the file 3.
C4_Witness ==
    /\ GotGET(1)
    /\ requestline[1] = << "/", "3", "?", "/" >>
    /\ branch[1] = "as_is"
    /\ response[1].body = "3-bytes"

\* C5: when index.html does not exist at the document root, every GET routed
\* to the fallback gets the not-found response of the static-file mechanism
\* for /index.html, and nothing else.
C5_MissingIndexNotFound ==
    \A t \in Threads :
        (GotGET(t) /\ branch[t] = "fallback" /\ RootIndex \notin DOMAIN fs)
        => /\ response[t] = SendHead(fs, IndexTarget)
           /\ response[t] = NoFile

\* C5, its case: a GET of /3/, where the directory 3 exists and index.html
\* does not, was answered 404.
C5_Witness ==
    /\ GotGET(1)
    /\ requestline[1] = << "/", "3", "/" >>
    /\ branch[1] = "fallback"
    /\ RootIndex \notin DOMAIN fs
    /\ << Srv, Name3 >> \in DOMAIN fs
    /\ response[1].status = 404

\* C6: with the filesystem unchanged, the response to a request is the same
\* after any interleaving of other requests as when it is the only request,
\* and the path one handler rewrote is never the path of another.
C6_RequestsIndependent ==
    \A t \in Threads :
        /\ pc[t] = "done" => response[t] = Respond(fs, command[t], requestline[t])
        /\ pc[t] = "parsed" => path[t] = ParsedPath(requestline[t])
        /\ pc[t] = "idle" => path[t] = << >>

\* C6, its case: one handler has rewritten its path to /index.html while the
\* other still holds the path /3 it parsed.
C6_Witness ==
    /\ pc[1] = "done"
    /\ branch[1] = "fallback"
    /\ path[1] = IndexTarget
    /\ pc[2] = "parsed"
    /\ command[2] = "GET"
    /\ path[2] = << "/", "3" >>

\* C7: only GET goes through the routing decision: for every other method
\* the path is never rewritten, and a HEAD gets the headers that the
\* static-file mechanism sends for the path as requested, which is the
\* not-found response when that path names nothing.
C7_OnlyGetRouted ==
    \A t \in Threads :
        (pc[t] = "done" /\ command[t] # "GET")
        => /\ path[t] = ParsedPath(requestline[t])
           /\ branch[t] = "none"
           /\ command[t] = "HEAD" =>
                /\ response[t] = HeadOnly(fs, ParsedPath(requestline[t]))
                /\ ~Exists(fs, TranslatePath(ParsedPath(requestline[t])))
                     => response[t].status = 404
           /\ command[t] # "HEAD" => response[t] = Unsupported

\* C7, its case: a HEAD of /;, which names nothing, was answered 404 although
\* index.html exists.
C7_Witness ==
    /\ pc[1] = "done"
    /\ command[1] = "HEAD"
    /\ requestline[1] = << "/", ";" >>
    /\ HasIndexFile
    /\ response[1].status = 404

\* C8: a GET of the root path / is always served the fallback document
\* /index.html, whatever the existence check of the empty relative path
\* returned.
C8_RootFallsBack ==
    \A t \in Threads :
        (GotGET(t) /\ ReqPath(requestline[t]) = << "/" >>)
        => /\ branch[t] = "fallback"
           /\ path[t] = IndexTarget
           /\ response[t] = SendHead(fs, IndexTarget)

\* C8, its case: a GET of / was answered with the bytes of index.html; the
\* existence check was made on the empty path.
C8_Witness ==
    /\ GotGET(1)
    /\ requestline[1] = << "/" >>
    /\ checked[1] = Stat(fs, << >>)
    /\ HasIndexFile
    /\ response[1].body = "<app/>"

\* C9: whenever do_GET takes the serve-as-is branch, the entry that the
\* static-file mechanism resolves and serves is the entry whose existence
\* was checked.
C9_ServedIsChecked ==
    \A t \in Threads :
        (GotGET(t) /\ branch[t] = "as_is") => response[t].served = checked[t]

\* The names of the directories directly under the document root.
RootDirs == {p[2] : p \in {q \in DOMAIN fs : Len(q) = 2 /\ q[1] = Srv /\ fs[q].kind = "dir"}}

\* C10, its conclusion: no response to a GET is a directory listing or the
\* index document of a subdirectory; every 200 response is a regular file.
C10_NoListing ==
    \A t \in Threads :
        GotGET(t) =>
            /\ response[t].source \notin {"listing", "dirindex"}
            /\ response[t].status = 200 =>
                 /\ response[t].served.found
                 /\ fs[response[t].served.at].kind = "file"
                 /\ response[t].body = fs[response[t].served.at].content

\* C10: for a directory d under the document root, a GET of /d is delegated
\* unrewritten and answered with a redirect to /d/, a GET of /d/ is routed
\* to the fallback, and no response is ever a directory listing or the index
\* document of a subdirectory.
C10_DirectoryRedirect ==
    /\ C10_NoListing
    /\ \A t \in Threads : \A d \in RootDirs :
        /\ (GotGET(t) /\ requestline[t] = << "/" >> \o d)
           => /\ branch[t] = "as_is"
              /\ path[t] = requestline[t]
              /\ response[t].status = 301
              /\ response[t].location = << "/" >> \o d \o << "/" >>
        /\ (GotGET(t) /\ requestline[t] = << "/" >> \o d \o << "/" >>)
           => branch[t] = "fallback"

====
